---- MODULE Spec2Model ----
(***************************************************************************)
(* Model of robustbench/model_zoo/architectures/Meansparse_wrn_70_16.py:   *)
(* the MeanSparse layer (running statistics and thresholding), the        *)
(* WideResNet block that embeds three of them, and the constructors of    *)
(* the two network topologies (DMWideResNet, DMPreActResNet).             *)
(*                                                                         *)
(* Numbers.  Tensor elements, running_mean and bias are exact rationals   *)
(* written as integers counting 1/Den-ths; running_var counts             *)
(* 1/(Den*Den)-ths.  Den is chosen so that every division forward makes   *)
(* on the enumerated batches (by the element count, by the element count  *)
(* minus one, by batch_num) is exact, hence \div below is true division.  *)
(* threshold is a plain integer.  Floating-point rounding is not          *)
(* modelled.                                                               *)
(***************************************************************************)
EXTENDS Integers, Sequences, FiniteSets, TLC

VARIABLES running_mean, running_var, threshold, flag_update_statistics,
          batch_num, input, output, last, old, log,
          net, block

layerVars == <<running_mean, running_var, threshold, flag_update_statistics,
               batch_num, input, output, last, old, log>>
vars == <<running_mean, running_var, threshold, flag_update_statistics,
          batch_num, input, output, last, old, log, net, block>>

(***************************************************************************)
(* Bounds of the model.                                                    *)
(***************************************************************************)
MaxBatchNum == 2      \* batch_num is set to a value in 1..MaxBatchNum
MaxCalls == 2         \* forward calls made while flag_update_statistics is set
MaxThreshold == 1     \* threshold is set to a value in -1..MaxThreshold
MaxDepth == 70        \* the constructors are called with depth in -8..MaxDepth
MaxWidth == 2         \* and with width up to MaxWidth
MaxStride == 3        \* a _Block is constructed with stride in 1..MaxStride
MaxBlockCalls == 1    \* forward calls made on one _Block

(***************************************************************************)
(* Tensors.  A tensor of shape (N, C, H, W) is a function from the channel *)
(* index to the sequence of the N*H*W elements of that channel, which is   *)
(* all that forward distinguishes (it reduces over dims 0, 2, 3 and        *)
(* broadcasts per channel).                                                *)
(***************************************************************************)
Channels == {1, 2}
RawRows == { <<0, 0>>, <<0, 2>>, <<1, 1>> }
RowLen == Len(CHOOSE r \in RawRows : TRUE)

RECURSIVE Factorial(_)
Factorial(n) == IF n <= 1 THEN 1 ELSE n * Factorial(n - 1)

Den == RowLen * (RowLen - 1) * Factorial(MaxBatchNum)

Scale(row) == [i \in DOMAIN row |-> row[i] * Den]
Rows == { Scale(r) : r \in RawRows }
Inputs == [Channels -> Rows]
Thresholds == (-1)..MaxThreshold
BatchNums == 1..MaxBatchNum
NoTensor == [c \in Channels |-> << >>]

RECURSIVE Sum(_)
Sum(row) == IF row = << >> THEN 0 ELSE Head(row) + Sum(Tail(row))

Abs(d) == IF d < 0 THEN -d ELSE d

\* torch.mean(input, dim=(0, 2, 3)): per-channel mean
Mean(x) == [c \in DOMAIN x |-> Sum(x[c]) \div Len(x[c])]

\* torch.var(input, dim=(0, 2, 3)): per-channel unbiased variance
Var(x) ==
    [c \in DOMAIN x |->
        LET m == Sum(x[c]) \div Len(x[c])
            dev == [i \in DOMAIN x[c] |-> (x[c][i] - m) * (x[c][i] - m)]
        IN  Sum(dev) \div (Len(x[c]) - 1)]

(***************************************************************************)
(* MeanSparse.  A layer is the record of its five buffers.                 *)
(***************************************************************************)
\* MeanSparse.__init__(in_planes) with in_planes = Cardinality(chans)
MeanSparse(chans) ==
    [running_mean |-> [c \in chans |-> 0],
     running_var |-> [c \in chans |-> 0],
     threshold |-> 0,
     flag_update_statistics |-> 0,
     batch_num |-> 0]

\* lines 102-104: the in-place accumulation of the batch statistics
UpdateStatisticsNoDivide(self, x) ==
    IF self.flag_update_statistics # 0
    THEN [self EXCEPT
            !.running_mean = [c \in DOMAIN @ |-> @[c] + Mean(x)[c]],
            !.running_var = [c \in DOMAIN @ |-> @[c] + Var(x)[c]]]
    ELSE self

UpdateStatisticsOnBatchNum(self, x) ==
    IF self.batch_num # 0
    THEN [self EXCEPT
            !.running_mean = [c \in DOMAIN @ |-> @[c] + (Mean(x)[c] \div self.batch_num)],
            !.running_var = [c \in DOMAIN @ |-> @[c] + (Var(x)[c] \div self.batch_num)]]
    ELSE self

UpdateStatistics(self, x) ==
    IF self.flag_update_statistics # 0
    THEN [self EXCEPT
            !.running_mean = [c \in DOMAIN @ |-> @[c] + (Mean(x)[c] \div self.batch_num)],
            !.running_var = [c \in DOMAIN @ |-> @[c] + (Var(x)[c] \div self.batch_num)]]
    ELSE self

\* line 114: torch.abs(diff) < crop, with crop = t * sqrt(v) (line 107).
\* For t <= 0 or v = 0 crop is <= 0 and nothing is below it; otherwise both
\* sides are non-negative and are compared by their squares.
AbsLeCrop(diff, t, v) == t > 0 /\ diff * diff <= t * t * v

AbsLtCrop(diff, t, v) == t > 0 /\ diff * diff < t * t * v

\* lines 106-114: bias, crop, diff and the selection of the output
SparsifyDiff(x, bias, t, v) ==
    IF t = 0
    THEN x
    ELSE [c \in DOMAIN x |->
            [i \in DOMAIN x[c] |->
                IF AbsLtCrop(x[c][i] - bias[c], t, v[c])
                THEN bias[c]
                ELSE x[c][i] - bias[c]]]

Sparsify(x, bias, t, v) ==
    IF t = 0
    THEN x
    ELSE [c \in DOMAIN x |->
            [i \in DOMAIN x[c] |->
                IF AbsLtCrop(x[c][i] - bias[c], t, v[c])
                THEN bias[c]
                ELSE x[c][i]]]

\* MeanSparse.forward: the layer after the call and the tensor returned
forwardStale(self, x) ==
    LET s == UpdateStatistics(self, x)
    IN  [self |-> s,
         output |-> Sparsify(x, self.running_mean, self.threshold, self.running_var)]

forward(self, x) ==
    LET s == UpdateStatistics(self, x)
    IN  [self |-> s,
         output |-> Sparsify(x, s.running_mean, s.threshold, s.running_var)]

\* the layer held in the variables of the same names
Self ==
    [running_mean |-> running_mean,
     running_var |-> running_var,
     threshold |-> threshold,
     flag_update_statistics |-> flag_update_statistics,
     batch_num |-> batch_num]

InitLayer ==
    /\ running_mean = MeanSparse(Channels).running_mean
    /\ running_var = MeanSparse(Channels).running_var
    /\ threshold = MeanSparse(Channels).threshold
    /\ flag_update_statistics = MeanSparse(Channels).flag_update_statistics
    /\ batch_num = MeanSparse(Channels).batch_num
    /\ input = NoTensor
    /\ output = NoTensor
    /\ last = "init"
    /\ old = MeanSparse(Channels)
    /\ log = << >>

(***************************************************************************)
(* Construction of the blocks and of the two networks.  A module is the    *)
(* record of its attribute name and class; a block records its planes,     *)
(* its stride, the modules __init__ registers (in order) and the modules   *)
(* forward applies (in order).                                             *)
(***************************************************************************)
Mod(name, cls) == [name |-> name, cls |-> cls]

\* Python's `c and a or b` on integers
AndOr(c, a, b) == IF c /\ a # 0 THEN a ELSE b

\* _Block.__init__ and the modules _Block.forward applies
BlockNoMeanSparse(in_planes, out_planes, stride) ==
    LET has_shortcut == in_planes # out_planes
    IN  [cls |-> "_Block",
         in_planes |-> in_planes,
         out_planes |-> out_planes,
         stride |-> stride,
         has_shortcut |-> has_shortcut,
         modules |->
            <<Mod("batchnorm_0", "BatchNorm2d"), Mod("relu_0", "activation_fn"),
              Mod("conv_0", "Conv2d"), Mod("batchnorm_1", "BatchNorm2d"),
              Mod("relu_1", "activation_fn"), Mod("conv_1", "Conv2d")>>
            \o (IF has_shortcut THEN <<Mod("shortcut", "Conv2d")>> ELSE << >>),
         applies |->
            <<"batchnorm_0", "relu_0", "conv_0", "batchnorm_1", "relu_1", "conv_1">>
            \o (IF has_shortcut THEN <<"shortcut">> ELSE << >>)]

Block(in_planes, out_planes, stride) ==
    LET has_shortcut == in_planes # out_planes
    IN  [cls |-> "_Block",
         in_planes |-> in_planes,
         out_planes |-> out_planes,
         stride |-> stride,
         has_shortcut |-> has_shortcut,
         modules |->
            <<Mod("batchnorm_0", "BatchNorm2d"), Mod("meansparse_0", "MeanSparse"),
              Mod("relu_0", "activation_fn"), Mod("conv_0", "Conv2d"),
              Mod("batchnorm_1", "BatchNorm2d"), Mod("meansparse_1", "MeanSparse"),
              Mod("relu_1", "activation_fn"), Mod("conv_1", "Conv2d")>>
            \o (IF has_shortcut THEN <<Mod("shortcut", "Conv2d")>> ELSE << >>)
            \o <<Mod("meansparse_2", "MeanSparse")>>,
         applies |->
            <<"batchnorm_0", "meansparse_0", "relu_0", "conv_0",
              "batchnorm_1", "meansparse_1", "relu_1", "conv_1">>
            \o (IF has_shortcut THEN <<"shortcut">> ELSE << >>)
            \o <<"meansparse_2">>]

\* _BlockGroup.__init__: range(num_blocks) is empty for num_blocks <= 0
BlockGroupOneMore(num_blocks, in_planes, out_planes, stride) ==
    [i \in 1..(num_blocks + 1) |->
        Block(AndOr(i = 1, in_planes, out_planes), out_planes, AndOr(i = 1, stride, 1))]

BlockGroup(num_blocks, in_planes, out_planes, stride) ==
    [i \in 1..num_blocks |->
        Block(AndOr(i = 1, in_planes, out_planes), out_planes, AndOr(i = 1, stride, 1))]

Net(status, cls, depth, width, error, layer, modules) ==
    [status |-> status, cls |-> cls, depth |-> depth, width |-> width,
     error |-> error, layer |-> layer, modules |-> modules]

NoNet == Net("none", "", 0, 0, "", << >>, << >>)

\* DMWideResNet.__init__
DMWideResNet(depth, width) ==
    LET num_channels == <<16, 16 * width, 32 * width, 64 * width>>
        num_blocks == (depth - 4) \div 6
    IN  IF (depth - 4) % 6 # 0
        THEN Net("raised", "DMWideResNet", depth, width, "AssertionError", << >>, << >>)
        ELSE Net("built", "DMWideResNet", depth, width, "",
                 <<BlockGroup(num_blocks, num_channels[1], num_channels[2], 1),
                   BlockGroup(num_blocks, num_channels[2], num_channels[3], 2),
                   BlockGroup(num_blocks, num_channels[3], num_channels[4], 2)>>,
                 <<Mod("init_conv", "Conv2d"), Mod("layer", "Sequential"),
                   Mod("batchnorm", "BatchNorm2d"), Mod("meansparse_end", "MeanSparse"),
                   Mod("relu", "activation_fn"), Mod("logits", "Linear")>>)

\* _PreActBlock.__init__ and the modules _PreActBlock.forward applies
PreActBlock(in_planes, out_planes, stride) ==
    LET has_shortcut == stride # 1 \/ in_planes # out_planes
    IN  [cls |-> "_PreActBlock",
         in_planes |-> in_planes,
         out_planes |-> out_planes,
         stride |-> stride,
         has_shortcut |-> has_shortcut,
         modules |->
            <<Mod("batchnorm_0", "BatchNorm2d"), Mod("relu_0", "activation_fn"),
              Mod("conv_2d_1", "Conv2d"), Mod("batchnorm_1", "BatchNorm2d"),
              Mod("relu_1", "activation_fn"), Mod("conv_2d_2", "Conv2d")>>
            \o (IF has_shortcut THEN <<Mod("shortcut", "Conv2d")>> ELSE << >>),
         applies |->
            <<"batchnorm_0", "relu_0">>
            \o (IF has_shortcut THEN <<"shortcut">> ELSE << >>)
            \o <<"conv_2d_1", "batchnorm_1", "relu_1", "conv_2d_2">>]

\* DMPreActResNet._make_layer: strides [stride] + [1] * (num_blocks - 1)
make_layerSameStride(in_planes, out_planes, num_blocks, stride) ==
    [i \in 1..num_blocks |->
        PreActBlock(AndOr(i = 1, in_planes, out_planes), out_planes, stride)]

make_layer(in_planes, out_planes, num_blocks, stride) ==
    LET strides == <<stride>> \o [j \in 1..(num_blocks - 1) |-> 1]
    IN  [i \in DOMAIN strides |->
            PreActBlock(AndOr(i = 1, in_planes, out_planes), out_planes, strides[i])]

\* DMPreActResNet.__init__
DMPreActResNet(depth, width) ==
    IF width # 0
    THEN Net("raised", "DMPreActResNet", depth, width,
             "ValueError: Unsupported width.", << >>, << >>)
    ELSE IF depth # 18 /\ depth # 34
    THEN Net("raised", "DMPreActResNet", depth, width,
             "ValueError: Unsupported depth.", << >>, << >>)
    ELSE LET num_blocks == IF depth = 18 THEN <<2, 2, 2, 2>> ELSE <<3, 4, 6, 3>>
         IN  Net("built", "DMPreActResNet", depth, width, "",
                 <<make_layer(64, 64, num_blocks[1], 1),
                   make_layer(64, 128, num_blocks[2], 2),
                   make_layer(128, 256, num_blocks[3], 2),
                   make_layer(256, 512, num_blocks[4], 2)>>,
                 <<Mod("conv_2d", "Conv2d"), Mod("layer_0", "Sequential"),
                   Mod("layer_1", "Sequential"), Mod("layer_2", "Sequential"),
                   Mod("layer_3", "Sequential"), Mod("batchnorm", "BatchNorm2d"),
                   Mod("relu", "activation_fn"), Mod("logits", "Linear")>>)

(***************************************************************************)
(* A _Block instance: its constructor arguments, its three MeanSparse      *)
(* layers, how its last forward call ended, the layers on entry to that    *)
(* call (old) and the tensor that call handed to meansparse_0 (v0).        *)
(***************************************************************************)
BlockPlanes == { <<1, 1>>, <<2, 1>> }
TensorsOf(planes) == [1..planes -> Rows]

Layers(b) ==
    [meansparse_0 |-> b.meansparse_0,
     meansparse_1 |-> b.meansparse_1,
     meansparse_2 |-> b.meansparse_2]

\* _Block.__init__: every stride is accepted
NewBlockState(in_planes, out_planes, stride) ==
    LET ms == [meansparse_0 |-> MeanSparse(1..in_planes),
               meansparse_1 |-> MeanSparse(1..out_planes),
               meansparse_2 |-> MeanSparse(1..out_planes)]
    IN  [status |-> "constructed",
         in_planes |-> in_planes,
         out_planes |-> out_planes,
         stride |-> Block(in_planes, out_planes, stride).stride,
         has_shortcut |-> Block(in_planes, out_planes, stride).has_shortcut,
         meansparse_0 |-> ms.meansparse_0,
         meansparse_1 |-> ms.meansparse_1,
         meansparse_2 |-> ms.meansparse_2,
         calls |-> 0,
         old |-> ms,
         v0 |-> << >>]

NoBlock == [NewBlockState(1, 1, 1) EXCEPT !.status = "none"]

\* _Block.forward.  v0, v1, v2 are the tensors that reach meansparse_0,
\* meansparse_1 and meansparse_2: the results of batchnorm_0, of
\* batchnorm_1(conv_0(pad(..))) and of torch.add(shortcut, conv_1(..)),
\* which depend on weights this file does not fix.
BlockForwardCheckFirst(b, v0, v1, v2) ==
    IF b.stride # 1 /\ b.stride # 2
    THEN [b EXCEPT !.status = "raised", !.calls = @ + 1, !.old = Layers(b), !.v0 = v0]
    ELSE [b EXCEPT !.status = "returned", !.calls = @ + 1, !.old = Layers(b), !.v0 = v0,
                   !.meansparse_0 = forward(b.meansparse_0, v0).self,
                   !.meansparse_1 = forward(b.meansparse_1, v1).self,
                   !.meansparse_2 = forward(b.meansparse_2, v2).self]

BlockForwardResult(b, v0, v1, v2) ==
    LET r0 == forward(b.meansparse_0, v0)
    IN  IF b.stride # 1 /\ b.stride # 2
        THEN [b EXCEPT !.status = "raised", !.calls = @ + 1, !.old = Layers(b), !.v0 = v0,
                       !.meansparse_0 = r0.self]
        ELSE [b EXCEPT !.status = "returned", !.calls = @ + 1, !.old = Layers(b), !.v0 = v0,
                       !.meansparse_0 = r0.self,
                       !.meansparse_1 = forward(b.meansparse_1, v1).self,
                       !.meansparse_2 = forward(b.meansparse_2, v2).self]

Init ==
    /\ InitLayer
    /\ net = NoNet
    /\ block = NoBlock

(***************************************************************************)
(* The buffers are public: the owner of the layer assigns them.  These     *)
(* three actions are those assignments; they forget the last call.         *)
(***************************************************************************)
Assigned(s) ==
    /\ running_mean' = s.running_mean
    /\ running_var' = s.running_var
    /\ threshold' = s.threshold
    /\ flag_update_statistics' = s.flag_update_statistics
    /\ batch_num' = s.batch_num
    /\ old' = s
    /\ input' = NoTensor
    /\ output' = NoTensor
    /\ last' = "assign"
    /\ UNCHANGED <<log, net, block>>

SetThreshold(t) ==
    /\ t # threshold
    /\ Assigned([Self EXCEPT !.threshold = t])

\* a calibration pass over n batches begins; batch_num is assigned once
StartCalibration(n) ==
    /\ flag_update_statistics = 0
    /\ batch_num \in {0, n}
    /\ Assigned([Self EXCEPT !.flag_update_statistics = 1, !.batch_num = n])

StopCalibration ==
    /\ flag_update_statistics # 0
    /\ Assigned([Self EXCEPT !.flag_update_statistics = 0])

(***************************************************************************)
(* A call of MeanSparse.forward.  old is the layer on entry, log the       *)
(* inputs of the calls made while flag_update_statistics was set.          *)
(***************************************************************************)
Call(x, how) ==
    LET r == forward(Self, x)
    IN  /\ running_mean' = r.self.running_mean
        /\ running_var' = r.self.running_var
        /\ threshold' = r.self.threshold
        /\ flag_update_statistics' = r.self.flag_update_statistics
        /\ batch_num' = r.self.batch_num
        /\ input' = x
        /\ output' = r.output
        /\ old' = Self
        /\ last' = how
        /\ log' = IF flag_update_statistics # 0 THEN Append(log, x) ELSE log
        /\ UNCHANGED <<net, block>>

Forward(x) ==
    /\ flag_update_statistics # 0 => Len(log) < MaxCalls
    /\ Call(x, "forward")

\* forward applied to the tensor the previous call returned
ForwardAgain ==
    /\ last = "forward"
    /\ flag_update_statistics = 0
    /\ Call(output, "again")

Next ==
    \/ \E t \in Thresholds : SetThreshold(t)
    \/ \E n \in BatchNums : StartCalibration(n)
    \/ StopCalibration
    \/ \E x \in Inputs : Forward(x)
    \/ ForwardAgain

Spec == Init /\ [][Next]_vars

(***************************************************************************)
(* The constructors of the two networks, called with any depth and width. *)
(***************************************************************************)
Depths == (-8)..MaxDepth

NewDMWideResNet(depth, width) ==
    /\ net' = DMWideResNet(depth, width)
    /\ UNCHANGED <<layerVars, block>>

NewDMPreActResNet(depth, width) ==
    /\ net' = DMPreActResNet(depth, width)
    /\ UNCHANGED <<layerVars, block>>

NextNet ==
    \/ \E depth \in Depths, width \in 1..MaxWidth : NewDMWideResNet(depth, width)
    \/ \E depth \in Depths, width \in (-1)..MaxWidth : NewDMPreActResNet(depth, width)

SpecNet == Init /\ [][NextNet]_vars

(***************************************************************************)
(* One _Block: construction, the start of a calibration pass on its three *)
(* layers, and forward.                                                    *)
(***************************************************************************)
NewBlock(in_planes, out_planes, stride) ==
    /\ block' = NewBlockState(in_planes, out_planes, stride)
    /\ UNCHANGED <<layerVars, net>>

BlockStartCalibration(n) ==
    /\ block.status = "constructed"
    /\ block.meansparse_0.flag_update_statistics = 0
    /\ LET on(l) == [l EXCEPT !.flag_update_statistics = 1, !.batch_num = n]
       IN  block' = [block EXCEPT !.meansparse_0 = on(@),
                                  !.meansparse_1 = on(@),
                                  !.meansparse_2 = on(@),
                                  !.old = [k \in DOMAIN @ |-> on(@[k])]]
    /\ UNCHANGED <<layerVars, net>>

BlockForward(v0, v1, v2) ==
    /\ block.status # "none"
    /\ block.calls < MaxBlockCalls
    /\ block' = BlockForwardResult(block, v0, v1, v2)
    /\ UNCHANGED <<layerVars, net>>

NextBlock ==
    \/ \E p \in BlockPlanes, stride \in 1..MaxStride : NewBlock(p[1], p[2], stride)
    \/ \E n \in BatchNums : BlockStartCalibration(n)
    \/ \E v0 \in TensorsOf(block.in_planes), v1, v2 \in TensorsOf(block.out_planes) :
            BlockForward(v0, v1, v2)

SpecBlock == Init /\ [][NextBlock]_vars

(***************************************************************************)
(* Properties of MeanSparse.forward, checked under Spec.                   *)
(***************************************************************************)
Called == last \in {"forward", "again"}
Zero == [c \in Channels |-> 0]

RECURSIVE LogSum(_, _, _)
\* the sum over the first k logged batches of stat(batch)[c]
LogSum(stat(_), c, k) == IF k = 0 THEN 0 ELSE LogSum(stat, c, k - 1) + stat(log[k])[c]

\* C1: forward returns, for every element x of channel c, running_mean[c] when
\* threshold # 0 and |x - running_mean[c]| < threshold * sqrt(running_var[c])
\* (strictly, with the statistics in effect at the comparison), and x
\* otherwise; with threshold = 0 the output is the input, and an element
\* exactly on the boundary is kept.
C1_ForwardElementwise ==
    Called =>
        /\ DOMAIN output = DOMAIN input
        /\ \A c \in Channels :
            /\ DOMAIN output[c] = DOMAIN input[c]
            /\ \A i \in DOMAIN input[c] :
                LET x == input[c][i]
                    dist == Abs(x - running_mean[c])
                    crop2 == threshold * threshold * running_var[c]
                    below == threshold > 0 /\ dist * dist < crop2
                IN  /\ output[c][i] = IF threshold # 0 /\ below THEN running_mean[c] ELSE x
                    /\ threshold = 0 => output[c][i] = x
                    /\ dist * dist = crop2 => output[c][i] = x

C1_Witness ==
    /\ last = "forward"
    /\ threshold # 0
    /\ \E c \in Channels : \E i \in DOMAIN input[c] :
        output[c][i] = running_mean[c] /\ input[c][i] # running_mean[c]
    /\ \E c \in Channels : \E i \in DOMAIN input[c] :
        LET dist == Abs(input[c][i] - running_mean[c])
        IN  /\ dist > 0
            /\ dist * dist = threshold * threshold * running_var[c]
            /\ output[c][i] = input[c][i]

\* C2: in a calibration pass with batch_num = N > 0 that starts from zero
\* statistics, every forward call adds mean(batch)/N to running_mean and
\* var(batch)/N to running_var, per channel; after k calls the statistics are
\* the sums over the first k batches divided by N, after exactly N calls the
\* arithmetic means of the N batch statistics, and calls beyond the N-th keep
\* adding.
C2_CalibrationAccumulates ==
    /\ batch_num = 0 => log = << >>
    /\ batch_num > 0 =>
        \A c \in Channels :
            /\ running_mean[c] * batch_num = LogSum(Mean, c, Len(log))
            /\ running_var[c] * batch_num = LogSum(Var, c, Len(log))
            /\ Len(log) = batch_num =>
                /\ running_mean[c] * Len(log) = LogSum(Mean, c, Len(log))
                /\ running_var[c] * Len(log) = LogSum(Var, c, Len(log))
            /\ (last = "forward" /\ old.flag_update_statistics # 0) =>
                /\ (running_mean[c] - old.running_mean[c]) * batch_num = Mean(input)[c]
                /\ (running_var[c] - old.running_var[c]) * batch_num = Var(input)[c]

C2_Witness ==
    /\ last = "forward"
    /\ old.flag_update_statistics # 0
    /\ batch_num > 0
    /\ Len(log) = batch_num + 1
    /\ \A c \in Channels : old.running_mean[c] > 0 /\ running_mean[c] > old.running_mean[c]
    /\ \E c \in Channels : running_var[c] > old.running_var[c]

\* C4: a forward call with flag_update_statistics = 0 leaves all five buffers
\* as they were; in either mode it leaves threshold, flag_update_statistics
\* and batch_num as they were; a layer as constructed stays as constructed
\* and returns its input.
C4_ForwardFrame ==
    Called =>
        /\ old.flag_update_statistics = 0 => Self = old
        /\ threshold = old.threshold
        /\ flag_update_statistics = old.flag_update_statistics
        /\ batch_num = old.batch_num
        /\ old = MeanSparse(Channels) => (Self = MeanSparse(Channels) /\ output = input)

C4_Witness ==
    /\ last = "forward"
    /\ old.flag_update_statistics = 0
    /\ batch_num # 0
    /\ threshold # 0
    /\ running_var # Zero
    /\ output # input
    /\ Self = old

\* C5: a forward call made with flag_update_statistics set thresholds its
\* input against the statistics that include the batch of that call: the
\* bias and crop of the k-th such call come from the sums over batches 1..k.
C5_ThresholdsAgainstUpdated ==
    (last = "forward" /\ old.flag_update_statistics # 0) =>
        \A c \in Channels : \A i \in DOMAIN input[c] :
            LET k == Len(log)
                bias == LogSum(Mean, c, k) \div batch_num
                variance == LogSum(Var, c, k) \div batch_num
                dist == Abs(input[c][i] - bias)
                below == threshold > 0 /\ dist * dist < threshold * threshold * variance
            IN  /\ input = log[k]
                /\ bias = old.running_mean[c] + (Mean(input)[c] \div batch_num)
                /\ variance = old.running_var[c] + (Var(input)[c] \div batch_num)
                /\ output[c][i] = IF threshold # 0 /\ below THEN bias ELSE input[c][i]

C5_Witness ==
    /\ last = "forward"
    /\ old.flag_update_statistics # 0
    /\ threshold # 0
    /\ Len(log) >= 2
    /\ output # input
    /\ output # Sparsify(input, old.running_mean, old.threshold, old.running_var)

\* C9: with flag_update_statistics = 0 forward is idempotent for every
\* threshold and all statistics: forward of a returned tensor returns that
\* tensor; for threshold < 0 and where running_var is zero it is the identity.
C9_Idempotent ==
    /\ last = "again" => output = input
    /\ flag_update_statistics = 0 =>
        \A x \in Inputs :
            LET once == forward(Self, x).output
                twice == forward(Self, once).output
            IN  /\ twice = once
                /\ threshold < 0 => once = x
                /\ \A c \in Channels : running_var[c] = 0 => once[c] = x[c]

C9_Witness ==
    /\ last = "again"
    /\ threshold > 0
    /\ \E c \in Channels : \E i \in DOMAIN input[c] :
        /\ running_var[c] > 0
        /\ input[c][i] = running_mean[c]
        /\ running_mean[c] % Den # 0
    /\ \E c \in Channels : \E i \in DOMAIN input[c] : input[c][i] # running_mean[c]

(***************************************************************************)
(* Properties of the constructors, checked under SpecNet.                  *)
(***************************************************************************)
Built(cls) == net.status = "built" /\ net.cls = cls
BlocksOf(n) == UNION { { <<g, i>> : i \in DOMAIN n.layer[g] } : g \in DOMAIN n.layer }
BlockAt(n, p) == n.layer[p[1]][p[2]]
MeanSparseIn(modules) == { k \in DOMAIN modules : modules[k].cls = "MeanSparse" }
AppliedMeanSparse(b) ==
    { k \in MeanSparseIn(b.modules) :
        \E j \in DOMAIN b.applies : b.applies[j] = b.modules[k].name }
NumMeanSparse(n) ==
    Cardinality(MeanSparseIn(n.modules))
    + Sum([g \in DOMAIN n.layer |->
            Sum([i \in DOMAIN n.layer[g] |->
                    Cardinality(MeanSparseIn(n.layer[g][i].modules))])])
NumBlocks(n) == Sum([g \in DOMAIN n.layer |-> Len(n.layer[g])])

C6_BlocksForEveryAcceptedDepth ==
    net.cls = "DMWideResNet" =>
        /\ net.status = "built" <=> (net.depth - 4) % 6 = 0
        /\ net.status = "built" =>
            /\ Len(net.layer) = 3
            /\ \A g \in DOMAIN net.layer : Len(net.layer[g]) = (net.depth - 4) \div 6
            /\ NumBlocks(net) = 3 * ((net.depth - 4) \div 6)
            /\ NumMeanSparse(net) = 9 * ((net.depth - 4) \div 6) + 1

\* C6 as amended: DMWideResNet accepts a depth iff (depth - 4) mod 6 = 0
\* (otherwise it fails its assertion and builds nothing); for every accepted
\* depth >= 4 it builds three groups of (depth - 4) / 6 blocks, hence
\* 3 * (depth - 4) / 6 blocks and 9 * (depth - 4) / 6 + 1 MeanSparse layers
\* (33 and 100 for depth 70, 12 and 37 for depth 28); for an accepted depth
\* below 4 the three groups are empty and meansparse_end is the only
\* MeanSparse layer.
C6_BlocksForAcceptedDepthFrom4 ==
    net.cls = "DMWideResNet" =>
        /\ net.status = "built" <=> (net.depth - 4) % 6 = 0
        /\ net.status = "raised" => (net.error = "AssertionError" /\ net.layer = << >>)
        /\ net.status = "built" =>
            /\ Len(net.layer) = 3
            /\ net.depth >= 4 =>
                /\ \A g \in DOMAIN net.layer : Len(net.layer[g]) = (net.depth - 4) \div 6
                /\ NumBlocks(net) = 3 * ((net.depth - 4) \div 6)
                /\ NumMeanSparse(net) = 9 * ((net.depth - 4) \div 6) + 1
            /\ net.depth < 4 => (NumBlocks(net) = 0 /\ NumMeanSparse(net) = 1)
            /\ net.depth = 70 => (NumBlocks(net) = 33 /\ NumMeanSparse(net) = 100)
            /\ net.depth = 28 => (NumBlocks(net) = 12 /\ NumMeanSparse(net) = 37)

C6_Witness ==
    /\ Built("DMWideResNet")
    /\ net.depth = 70
    /\ NumBlocks(net) = 33
    /\ NumMeanSparse(net) = 100

\* C7: DMPreActResNet raises the width error for every width # 0, whatever
\* the depth, and the depth error for width = 0 and a depth other than 18
\* and 34; for depth 18 it builds layers of (2, 2, 2, 2) blocks and for depth
\* 34 of (3, 4, 6, 3) blocks, where the first block of each layer has the
\* layer's stride (1, 2, 2, 2) and every later block has stride 1.
C7_PreActResNetConstructor ==
    net.cls = "DMPreActResNet" =>
        /\ net.width # 0 =>
            (net.status = "raised" /\ net.error = "ValueError: Unsupported width.")
        /\ (net.width = 0 /\ net.depth \notin {18, 34}) =>
            (net.status = "raised" /\ net.error = "ValueError: Unsupported depth.")
        /\ (net.width = 0 /\ net.depth \in {18, 34}) => net.status = "built"
        /\ net.status = "built" =>
            /\ net.depth = 18 => [g \in DOMAIN net.layer |-> Len(net.layer[g])] = <<2, 2, 2, 2>>
            /\ net.depth = 34 => [g \in DOMAIN net.layer |-> Len(net.layer[g])] = <<3, 4, 6, 3>>
            /\ \A p \in BlocksOf(net) :
                BlockAt(net, p).stride = IF p[2] = 1 THEN <<1, 2, 2, 2>>[p[1]] ELSE 1

C7_Witness ==
    /\ Built("DMPreActResNet")
    /\ net.depth = 34
    /\ Cardinality(BlocksOf(net)) = 16
    /\ net.layer[3][1].stride = 2
    /\ net.layer[3][6].stride = 1

(***************************************************************************)
(* Property of _Block.forward, checked under SpecBlock.                    *)
(***************************************************************************)
\* C8: a _Block is constructed with any stride; with a stride other than 1
\* and 2 its forward raises, and does so after meansparse_0 has been applied:
\* with flag_update_statistics set the failed call has added the batch
\* statistics to meansparse_0 and has left meansparse_1 and meansparse_2
\* untouched.
C8_BlockRaisesAfterMeanSparse0 ==
    /\ (block.status # "none" /\ block.calls = 0) => block.status = "constructed"
    /\ block.calls > 0 =>
        /\ block.status = "raised" <=> block.stride \notin {1, 2}
        /\ block.status = "returned" <=> block.stride \in {1, 2}
    /\ block.status = "raised" =>
        /\ block.meansparse_1 = block.old.meansparse_1
        /\ block.meansparse_2 = block.old.meansparse_2
        /\ block.meansparse_0.flag_update_statistics # 0 =>
            \A c \in DOMAIN block.v0 :
                LET now == block.meansparse_0
                    was == block.old.meansparse_0
                IN  /\ (now.running_mean[c] - was.running_mean[c]) * now.batch_num
                            = Mean(block.v0)[c]
                    /\ (now.running_var[c] - was.running_var[c]) * now.batch_num
                            = Var(block.v0)[c]

C8_Witness ==
    /\ block.status = "raised"
    /\ block.stride = 3
    /\ block.meansparse_0.flag_update_statistics # 0
    /\ block.meansparse_0.running_mean # block.old.meansparse_0.running_mean
    /\ block.meansparse_0.running_var # block.old.meansparse_0.running_var
    /\ block.meansparse_1 = block.old.meansparse_1

====
